---------------------------- MODULE Spec2Model ----------------------------
(***************************************************************************)
(* A model of coderev (src/coderev/__init__.py): the orchestrator main(),  *)
(* the config loader load_config(), the agent runner run_agent(), the      *)
(* layered settings of main()._default,                                    *)
(* the hunk parser parse_changed_hunks() and the snippet builder           *)
(* build_context_snippets().                                               *)
(*                                                                         *)
(* Text is modelled as a sequence of one-character strings.  A command     *)
(* argument is a sequence of tokens, where the placeholders "{prompt}" and *)
(* "{prompt_file}" are single tokens and every other token is literal      *)
(* text.                                                                   *)
(***************************************************************************)
EXTENDS Integers, Sequences, FiniteSets, TLC

VARIABLES
  \* ---- load_config (lines 81-104), called first by main() (line 498)
  files,       \* what each config path holds on disk
  lcArgs,      \* config_path, no_config and repo, as load_config receives them
  lcPos,       \* the number of candidates the search loop has passed
  reads,       \* the paths read_text was called on, in order
  config,      \* <<>>, or <<d>>: the mapping load_config returned
  \* ---- one run of main() (lines 607-658) and run_agent (385-484)
  pc,          \* the position of the run
  log,         \* the steps finished so far, each with its outcome
  exitCode,    \* <<>> while running, <<c>> once the process has exited with c
  failure,     \* the fatal condition that ended the run, "none" otherwise
  stderrLog,   \* what was printed to standard error, in order
  stdoutText,  \* <<>> or <<text>>: what was printed to standard output
  outFile,     \* <<>> or <<text>>: the content written to args.out
  degraded,    \* the recoverable conditions met so far
  gathered,    \* the documentation and template read for the prompt
  prompt,      \* the assembled prompt
  agent,       \* the AgentSpec resolved by load_agent_spec
  cmd,         \* run_agent's local cmd
  spawns,      \* the subprocess.run calls made by run_agent
  tmp,         \* the temporary prompt file: "absent", "exists" or "removed"
  tmpCreated,  \* how many temporary files were created
  rmAttempts,  \* how many times os.remove was called on the temporary file
  rmErrors,    \* how many of these calls raised OSError
  cp,          \* the outcome of subprocess.run
  output,      \* <<>> or <<text>>: what run_agent returned
  \* ---- the resolution of one setting by main() (lines 500-605)
  setting,     \* the setting and what each layer supplies for it
  effective,   \* <<>>, or <<v>>: the value main() works with
  \* ---- parse_changed_hunks (lines 165-191)
  diff,         \* diff_text.splitlines()
  pos,          \* the number of lines scanned
  current_file, \* <<>> for None, or <<path>>
  hunks,        \* the ChangedHunk records appended so far
  \* ---- build_context_snippets for one file (lines 217-243)
  snipIn,       \* the file's lines, its hunks, context_lines, per_file_max_chars
  snipOut       \* <<>>, or <<r>>: the blocks built, the lines read, the text

ctlVars == <<pc, log, exitCode, failure, stderrLog>>
resVars == <<stdoutText, outFile>>
inVars == <<degraded, gathered, prompt, agent>>
raVars == <<cmd, spawns, tmp, tmpCreated, rmAttempts, rmErrors, cp, output>>

loadVars == <<files, lcArgs, lcPos, reads, config>>

mainVars == <<loadVars, ctlVars, resVars, inVars, raVars>>

cfgVars == <<setting, effective>>
parseVars == <<diff, pos, current_file, hunks>>
snipVars == <<snipIn, snipOut>>

vars == <<mainVars, cfgVars, parseVars, snipVars>>

\* the variables each part of the program leaves alone
offLoad == <<cfgVars, parseVars, snipVars>>
offMain == <<loadVars, offLoad>>
offCfg == <<mainVars, parseVars, snipVars>>
offParse == <<mainVars, cfgVars, snipVars>>
offSnip == <<mainVars, cfgVars, parseVars>>

-----------------------------------------------------------------------------
(* Bounds *)

\* the longest agent command (number of arguments) a user spec may give
MaxArgs == 2
\* the largest number of --obey-doc paths
MaxDocs == 1
\* the longest diff (number of lines) of the structure check
MaxLines == 4
\* the longest number (digits) in a hunk header of the header check
MaxDigits == 2
\* the longest file (number of lines) given to the snippet builder
MaxFileLines == 3
\* the largest start_new of a hunk given to the snippet builder
MaxStart == 4
\* the largest context_lines
MaxContext == 2

-----------------------------------------------------------------------------
(* The parts of the program that a specification does not exercise *)

NoSetting ==
  [s |-> [key |-> "none", envVar |-> FALSE, kind |-> "none",
          fallback |-> [t |-> "str", s |-> <<>>, n |-> 0, items |-> <<>>]],
   cli |-> <<>>, cliList |-> <<>>, env |-> <<>>, cfg |-> <<>>]

NoSnippet == [lines |-> <<>>, hunks |-> <<>>, context_lines |-> 0, cap |-> 0]

IdleCfg == setting = NoSetting /\ effective = <<>>
IdleParse == diff = <<>> /\ pos = 0 /\ current_file = <<>> /\ hunks = <<>>
IdleSnip == snipIn = NoSnippet /\ snipOut = <<>>

-----------------------------------------------------------------------------
(* Text helpers *)

IsSpace(c) == c \in {" ", "\n", "\t"}

RECURSIVE LStrip(_)
LStrip(s) ==
  IF s # <<>> /\ IsSpace(Head(s)) THEN LStrip(Tail(s)) ELSE s

RECURSIVE RStrip(_)
RStrip(s) ==
  IF s # <<>> /\ IsSpace(s[Len(s)]) THEN RStrip(SubSeq(s, 1, Len(s) - 1)) ELSE s

\* str.strip()
Strip(s) == RStrip(LStrip(s))

\* a[: n] for n >= 0
Take(s, n) == SubSeq(s, 1, IF n < Len(s) THEN n ELSE Len(s))

RECURSIVE Flatten(_)
Flatten(ss) == IF ss = <<>> THEN <<>> ELSE Head(ss) \o Flatten(Tail(ss))

-----------------------------------------------------------------------------
(* The agent runner's data *)

TmpPath == <<"/tmp/tmpXXXX.md">>

\* str.replace(tok, val) on an argument: every occurrence of the placeholder
\* token is replaced by the tokens of val, all other tokens are kept.
\* only the first occurrence is replaced
RECURSIVE ReplaceFirst(_, _, _)
ReplaceFirst(arg, tok, val) ==
  IF arg = <<>> THEN <<>>
  ELSE IF Head(arg) = tok THEN val \o Tail(arg)
  ELSE <<Head(arg)>> \o ReplaceFirst(Tail(arg), tok, val)

Replace(arg, tok, val) ==
  Flatten([i \in 1..Len(arg) |-> IF arg[i] = tok THEN val ELSE <<arg[i]>>])

\* [a.replace(tok, val) for a in cmd]
SubstCmd(c, tok, val) == [i \in 1..Len(c) |-> Replace(c[i], tok, val)]

Presets ==
  [codex   |-> [cmd |-> << <<"codex">>, <<"exec">>, <<"-">> >>, mode |-> "stdin"],
   copilot |-> [cmd |-> << <<"copilot">>, <<"--prompt-file">>, <<"{prompt_file}">> >>,
                mode |-> "file"]]

NoAgent == [cmd |-> <<>>, mode |-> "none"]
NoCp == [started |-> "none", returncode |-> 0, stdout |-> <<>>, stderr |-> <<>>]

\* the arguments a user-supplied agent JSON may contain
UserArgs ==
  { <<"mycli">>, <<"{prompt}">>, <<"--in=", "{prompt_file}">>,
    <<"{prompt}", "{prompt_file}", "{prompt}">> }

Modes == {"stdin", "arg", "file", "bogus"}

UserCmds == UNION {[1..n -> UserArgs] : n \in 0..MaxArgs}

\* the commands of the agent JSON tried in a whole run of main()
MainCmds ==
  { <<>>,
    << <<"mycli">>, <<"{prompt}">> >>,
    << <<"mycli">>, <<"--in=", "{prompt_file}">> >> }

AgentNames == {"codex", "copilot", "mybot"}

\* --agent-config: unset, or a JSON text
NoConfig == [given |-> FALSE, parses |-> FALSE, hasCmd |-> FALSE, cmd |-> <<>>, mode |-> "missing"]
AgentConfigs(cmds) ==
  {[given |-> TRUE, parses |-> FALSE, hasCmd |-> FALSE, cmd |-> <<>>, mode |-> "missing"],
   [given |-> TRUE, parses |-> TRUE, hasCmd |-> FALSE, cmd |-> <<>>, mode |-> "stdin"]}
  \cup [given : {TRUE}, parses : {TRUE}, hasCmd : {TRUE}, cmd : cmds,
        mode : Modes \cup {"missing"}]

\* the exit codes, outputs and error outputs of the agent process
RetCodes == {0, 1, 3}
Stdouts == { <<>>, <<"O", "K", "\n">> }
Stderrs == { <<>>, <<" ", "\n">>, <<"b", "o", "o", "m", "\n">> }

\* what subprocess.run can do: raise before the process exists, or return
\* the finished process
SpawnOutcomes ==
  [started : {"FileNotFoundError", "PermissionError"}, returncode : {0},
   stdout : {<<>>}, stderr : {<<>>}]
  \cup [started : {"ok"}, returncode : RetCodes, stdout : Stdouts, stderr : Stderrs]

Msg(tag) == [tag |-> tag, body |-> <<>>]

-----------------------------------------------------------------------------
(* Leaving the run *)

Ok(step) == [step |-> step, ok |-> TRUE]
Failed(step) == [step |-> step, ok |-> FALSE]

\* the step finished and control passes on
Pass(step, next) ==
  /\ pc' = next
  /\ log' = Append(log, Ok(step))
  /\ UNCHANGED <<exitCode, failure>>

\* the messages are printed to standard error and the process exits with code
Abort(step, cond, code, msgs) ==
  /\ pc' = "exited"
  /\ log' = Append(log, Failed(step))
  /\ exitCode' = <<code>>
  /\ failure' = cond
  /\ stderrLog' = stderrLog \o msgs

\* the failure of the diff is reported and the run goes on
SystemExit2DiffIgnored(step, cond, msgs) ==
  IF step = "compute_diff"
    THEN /\ pc' = "truncate_diff"
         /\ log' = Append(log, Failed(step))
         /\ stderrLog' = stderrLog \o msgs
         /\ UNCHANGED <<exitCode, failure>>
    ELSE Abort(step, cond, 2, msgs)

\* print(..., file=sys.stderr); raise SystemExit(2)
SystemExit2(step, cond, msgs) == Abort(step, cond, 2, msgs)

\* an exception nothing catches: the interpreter prints the traceback to
\* standard error and exits with code 1
Uncaught(step, cond, exc, msgs) ==
  Abort(step, cond, 1, msgs \o <<Msg("Traceback"), Msg(exc)>>)

-----------------------------------------------------------------------------
(* load_config, lines 60-104 *)

\* what a config path holds on disk, by what exists(), read_text() and
\* json.loads() make of it:
\*   "absent"       exists() is false
\*   "object"       UTF-8 text of a JSON object
\*   "not_object"   UTF-8 text of another JSON value (a list, a number)
\*   "malformed"    UTF-8 text that is not JSON: json.JSONDecodeError
\*   "unreadable"   a directory, or a file without permission: OSError
\*   "undecodable"  bytes that are not UTF-8: UnicodeDecodeError
FileKinds ==
  {"absent", "object", "not_object", "malformed", "unreadable", "undecodable"}

CwdPaths == <<"cwd/.coderev.json", "cwd/coderev.json">>
RootPaths == <<"root/.coderev.json", "root/coderev.json">>
UserPath == "user/coderev/config.json"
\* config_path, resolved against the repository or the current directory
GivenPath == "given.json"

ConfigPaths ==
  {CwdPaths[1], CwdPaths[2], RootPaths[1], RootPaths[2], UserPath, GivenPath}

\* repo is "none" (not in a repository), "cwd" (the current directory is
\* the repository root) or "root" (the root is another directory)
Repos == {"none", "cwd", "root"}

\* the paths to check for config, in search order
DefaultConfigPaths(repo) ==
  CwdPaths
    \o (IF repo # "none" /\ repo # "cwd" THEN RootPaths ELSE <<>>)
    \o <<UserPath>>

\* a dict: {} or the object of one file
EmptyMapping == [from |-> <<>>]
ObjectIn(p) == [from |-> <<p>>]

LoadWarning(p) == [tag |-> "WARNING: Could not load config from", body |-> <<p>>]

\* return {}
ReturnEmpty ==
  /\ config' = <<EmptyMapping>>
  /\ Pass("load_config", "parse_args")
  /\ UNCHANGED <<reads, stderrLog, degraded>>

\* the try statement of lines 90-95 and 98-104 on a path that exists:
\* the object is returned, another JSON value gives {}, JSONDecodeError and
\* OSError are caught and reported and {} is returned after the statement,
\* UnicodeDecodeError is a ValueError that no except clause names
TryLoad(p) ==
  /\ reads' = Append(reads, p)
  /\ CASE files[p] = "object" ->
            /\ config' = <<ObjectIn(p)>>
            /\ Pass("load_config", "parse_args")
            /\ UNCHANGED <<stderrLog, degraded>>
       [] files[p] = "not_object" ->
            /\ config' = <<EmptyMapping>>
            /\ Pass("load_config", "parse_args")
            /\ UNCHANGED <<stderrLog, degraded>>
       [] files[p] \in {"malformed", "unreadable"} ->
            /\ config' = <<EmptyMapping>>
            /\ stderrLog' = Append(stderrLog, LoadWarning(p))
            /\ degraded' = degraded \cup {"config"}
            /\ Pass("load_config", "parse_args")
       [] OTHER ->
            /\ Uncaught("load_config", "config", "UnicodeDecodeError", <<>>)
            /\ degraded' = degraded \cup {"config"}
            /\ UNCHANGED config

LoadRest == <<files, lcArgs, resVars, gathered, prompt, agent, raVars>>

\* lines 83-84
load_config_disabled ==
  /\ pc = "load_config"
  /\ lcArgs.no_config
  /\ ReturnEmpty
  /\ UNCHANGED <<lcPos, LoadRest>>
  /\ UNCHANGED offLoad

\* lines 85-95
load_config_given ==
  /\ pc = "load_config"
  /\ ~lcArgs.no_config
  /\ lcArgs.config_path # <<>>
  /\ IF files[lcArgs.config_path[1]] # "absent"
       THEN TryLoad(lcArgs.config_path[1])
       ELSE ReturnEmpty
  /\ UNCHANGED <<lcPos, LoadRest>>
  /\ UNCHANGED offLoad

\* the candidate the search loop is at
Candidates == DefaultConfigPaths(lcArgs.repo)
Searching ==
  /\ pc = "load_config"
  /\ ~lcArgs.no_config
  /\ lcArgs.config_path = <<>>

\* lines 96-97: the candidate does not exist
load_config_skip ==
  /\ Searching
  /\ lcPos < Len(Candidates)
  /\ files[Candidates[lcPos + 1]] = "absent"
  /\ lcPos' = lcPos + 1
  /\ UNCHANGED <<reads, config, ctlVars, degraded, LoadRest>>
  /\ UNCHANGED offLoad

\* lines 97-104: the first candidate that exists ends the search
load_config_found ==
  /\ Searching
  /\ lcPos < Len(Candidates)
  /\ files[Candidates[lcPos + 1]] # "absent"
  /\ TryLoad(Candidates[lcPos + 1])
  /\ UNCHANGED <<lcPos, LoadRest>>
  /\ UNCHANGED offLoad

\* line 104: no candidate exists
load_config_none ==
  /\ Searching
  /\ lcPos = Len(Candidates)
  /\ ReturnEmpty
  /\ UNCHANGED <<lcPos, LoadRest>>
  /\ UNCHANGED offLoad

load_config ==
  \/ load_config_disabled
  \/ load_config_given
  \/ load_config_skip
  \/ load_config_found
  \/ load_config_none

\* lines 500-600: building the parser converts the integer settings of the
\* environment and of cfg (ValueError when one is not a number), and
\* parse_args() ends the process with code 2 on a command line it rejects
parse_args ==
  /\ pc = "parse_args"
  /\ \/ /\ Pass("parse_args", "ensure_repo_root")
        /\ UNCHANGED stderrLog
     \/ SystemExit2("parse_args", "usage", <<Msg("usage:"), Msg("error:")>>)
     \/ Uncaught("parse_args", "setting", "ValueError", <<>>)
  /\ UNCHANGED <<resVars, inVars, raVars>>
  /\ UNCHANGED offMain

-----------------------------------------------------------------------------
(* main(), lines 607-658 *)

ensure_repo_root ==
  /\ pc = "ensure_repo_root"
  /\ \/ /\ Pass("ensure_repo_root", "fetch_base")
        /\ UNCHANGED stderrLog
     \/ SystemExit2("ensure_repo_root", "not_repo",
                    <<Msg("ERROR: Not inside a git repository."), Msg("e.stderr")>>)
  /\ UNCHANGED <<resVars, inVars, raVars>>
  /\ UNCHANGED offMain

\* a failing fetch is swallowed: nothing is printed
fetch_base ==
  /\ pc = "fetch_base"
  /\ \E fetched \in BOOLEAN :
       degraded' = IF fetched THEN degraded ELSE degraded \cup {"fetch"}
  /\ Pass("fetch_base", "checkout_branch")
  /\ UNCHANGED <<stderrLog, resVars, gathered, prompt, agent, raVars>>
  /\ UNCHANGED offMain

checkout_branch ==
  /\ pc = "checkout_branch"
  /\ \E local \in BOOLEAN, remote \in BOOLEAN :
       IF local \/ remote
         THEN /\ Pass("checkout_branch", "compute_diff")
              /\ UNCHANGED stderrLog
         ELSE SystemExit2("checkout_branch", "branch",
                          <<Msg("ERROR: Could not check out branch"), Msg("e.stderr")>>)
  /\ UNCHANGED <<resVars, inVars, raVars>>
  /\ UNCHANGED offMain

compute_diff ==
  /\ pc = "compute_diff"
  /\ \/ /\ Pass("compute_diff", "truncate_diff")
        /\ UNCHANGED stderrLog
     \/ SystemExit2("compute_diff", "diff",
                    <<Msg("ERROR: Failed to compute git diff."), Msg("e.stderr")>>)
  /\ UNCHANGED <<resVars, inVars, raVars>>
  /\ UNCHANGED offMain

truncate_diff ==
  /\ pc = "truncate_diff"
  /\ Pass("truncate_diff", "list_changed_files")
  /\ UNCHANGED <<stderrLog, resVars, inVars, raVars>>
  /\ UNCHANGED offMain

\* git(...) runs with check=True and nothing catches CalledProcessError
list_changed_files ==
  /\ pc = "list_changed_files"
  /\ \/ /\ Pass("list_changed_files", "parse_changed_hunks")
        /\ UNCHANGED stderrLog
     \/ Uncaught("list_changed_files", "changed_files",
                 "subprocess.CalledProcessError", <<>>)
  /\ UNCHANGED <<resVars, inVars, raVars>>
  /\ UNCHANGED offMain

parse_hunks_step ==
  /\ pc = "parse_changed_hunks"
  /\ Pass("parse_changed_hunks", "build_context_snippets")
  /\ UNCHANGED <<stderrLog, resVars, inVars, raVars>>
  /\ UNCHANGED offMain

build_snippets_step ==
  /\ pc = "build_context_snippets"
  /\ Pass("build_context_snippets", "read_docs")
  /\ UNCHANGED <<stderrLog, resVars, inVars, raVars>>
  /\ UNCHANGED offMain

DocName(i) == IF i = 1 THEN "doc1" ELSE IF i = 2 THEN "doc2" ELSE "docN"

\* the sublist of the positions i of 1..n with exists[i], in order
RECURSIVE Existing(_, _)
Existing(exists, n) ==
  IF n = 0 THEN <<>>
  ELSE Existing(exists, n - 1) \o (IF exists[n] THEN <<DocName(n)>> ELSE <<>>)

RECURSIVE MissingWarnings(_, _)
MissingWarnings(exists, n) ==
  IF n = 0 THEN <<>>
  ELSE MissingWarnings(exists, n - 1)
         \o (IF exists[n] THEN <<>>
             ELSE <<[tag |-> "WARNING: Doc not found, skipping", body |-> <<DocName(n)>>]>>)

read_docs ==
  /\ pc = "read_docs"
  /\ \E n \in 0..MaxDocs : \E exists \in [1..n -> BOOLEAN] :
       /\ gathered' = [gathered EXCEPT !.docs = Existing(exists, n)]
       /\ stderrLog' = stderrLog \o MissingWarnings(exists, n)
       /\ degraded' = IF \E i \in 1..n : ~exists[i]
                        THEN degraded \cup {"doc"} ELSE degraded
  /\ Pass("read_docs", "read_template")
  /\ UNCHANGED <<resVars, prompt, agent, raVars>>
  /\ UNCHANGED offMain

read_template ==
  /\ pc = "read_template"
  /\ \/ /\ UNCHANGED <<gathered, stderrLog, degraded>>
     \/ /\ gathered' = [gathered EXCEPT !.template = <<"template">>]
        /\ UNCHANGED <<stderrLog, degraded>>
     \/ /\ stderrLog' = Append(stderrLog,
                   [tag |-> "WARNING: Template not found, skipping", body |-> <<"template">>])
        /\ degraded' = degraded \cup {"template"}
        /\ UNCHANGED gathered
  /\ Pass("read_template", "build_prompt")
  /\ UNCHANGED <<resVars, prompt, agent, raVars>>
  /\ UNCHANGED offMain

\* the parts of the prompt that depend on what was read
build_prompt(docs, template) ==
  <<"# Task: Automated PR Review">>
    \o (IF docs # <<>> THEN <<"## Documentation to OBEY">> \o docs ELSE <<>>)
    \o (IF template # <<>> THEN <<"## Result Template">> \o template ELSE <<>>)
    \o <<"## Changed Files", "## Diff", "## Output Requirements">>

build_prompt_step ==
  /\ pc = "build_prompt"
  /\ prompt' = build_prompt(gathered.docs, gathered.template)
  /\ Pass("build_prompt", "load_agent_spec")
  /\ UNCHANGED <<stderrLog, resVars, degraded, gathered, agent, raVars>>
  /\ UNCHANGED offMain

-----------------------------------------------------------------------------
(* load_agent_spec, lines 351-382 *)

\* the AgentSpec, or how the call ends
load_agent_spec(name, ac) ==
  IF ac.given
    THEN IF ~ac.parses
           THEN [end |-> "raise", exc |-> "json.JSONDecodeError", cond |-> "spec_unparsable",
                 spec |-> NoAgent]
         ELSE IF ~ac.hasCmd
           THEN [end |-> "raise", exc |-> "KeyError", cond |-> "spec_no_cmd",
                 spec |-> NoAgent]
         ELSE [end |-> "return", exc |-> "", cond |-> "none",
               spec |-> [cmd |-> ac.cmd,
                         mode |-> IF ac.mode = "missing" THEN "stdin" ELSE ac.mode]]
  ELSE IF name \notin DOMAIN Presets
    THEN [end |-> "exit2", exc |-> "", cond |-> "unknown_agent", spec |-> NoAgent]
  ELSE [end |-> "return", exc |-> "", cond |-> "none", spec |-> Presets[name]]

load_agent_spec_step ==
  /\ pc = "load_agent_spec"
  /\ \E name \in AgentNames, ac \in {NoConfig} \cup AgentConfigs(MainCmds) :
       LET r == load_agent_spec(name, ac) IN
         CASE r.end = "return" ->
                /\ agent' = r.spec
                /\ Pass("load_agent_spec", "run_agent")
                /\ UNCHANGED stderrLog
           [] r.end = "exit2" ->
                /\ SystemExit2("load_agent_spec", r.cond, <<Msg("ERROR: Unknown agent")>>)
                /\ UNCHANGED agent
           [] r.end = "raise" ->
                /\ Uncaught("load_agent_spec", r.cond, r.exc, <<>>)
                /\ UNCHANGED agent
  /\ UNCHANGED <<resVars, degraded, gathered, prompt, raVars>>
  /\ UNCHANGED offMain

-----------------------------------------------------------------------------
(* run_agent, lines 385-484 *)

\* shutil.which(exe): the path found for the executable
Resolved(exe) == <<"/usr/bin/">> \o exe

ComSpec == << <<"cmd.exe">>, <<"/d">>, <<"/s">>, <<"/c">> >>
PowerShell ==
  << <<"powershell.exe">>, <<"-NoProfile">>, <<"-ExecutionPolicy">>, <<"Bypass">>,
     <<"-File">> >>

\* lines 386-420: validation, resolution of the executable, Windows wrapping
run_agent_resolve ==
  /\ pc = "run_agent"
  /\ \/ /\ agent.cmd = <<>>
        /\ SystemExit2("run_agent", "empty_cmd", <<Msg("ERROR: Agent cmd is empty.")>>)
        /\ UNCHANGED cmd
     \/ /\ agent.cmd # <<>>
        /\ SystemExit2("run_agent", "exe_not_found",
                       <<Msg("ERROR: Command not found on PATH")>>)
        /\ UNCHANGED cmd
     \/ /\ agent.cmd # <<>>
        /\ LET resolved == [agent.cmd EXCEPT ![1] = Resolved(agent.cmd[1])] IN
           \E osName \in {"posix", "nt"}, suffix \in {".exe", ".cmd", ".ps1"},
              shell \in BOOLEAN :
             IF osName = "nt" /\ suffix = ".cmd"
               THEN IF shell
                      THEN /\ cmd' = ComSpec \o resolved
                           /\ pc' = "dispatch"
                           /\ UNCHANGED <<log, exitCode, failure, stderrLog>>
                      ELSE /\ SystemExit2("run_agent", "comspec_missing",
                                  <<Msg("ERROR: ComSpec points to missing cmd.exe")>>)
                           /\ UNCHANGED cmd
             ELSE IF osName = "nt" /\ suffix = ".ps1"
               THEN IF shell
                      THEN /\ cmd' = PowerShell \o resolved
                           /\ pc' = "dispatch"
                           /\ UNCHANGED <<log, exitCode, failure, stderrLog>>
                      ELSE /\ SystemExit2("run_agent", "powershell_missing",
                                  <<Msg("ERROR: powershell.exe not found")>>)
                           /\ UNCHANGED cmd
             ELSE /\ cmd' = resolved
                  /\ pc' = "dispatch"
                  /\ UNCHANGED <<log, exitCode, failure, stderrLog>>
  /\ UNCHANGED <<resVars, inVars, spawns, tmp, tmpCreated, rmAttempts, rmErrors, cp, output>>
  /\ UNCHANGED offMain

\* subprocess.run(c, input=prompt, ...)
Spawn(c) == spawns' = Append(spawns, [cmd |-> c, input |-> prompt])

\* lines 473-476 and after: what follows the outcome o of subprocess.run
AfterRun(o) ==
  CASE o.started = "ok" ->
         /\ pc' = "check_rc"
         /\ UNCHANGED <<log, exitCode, failure, stderrLog>>
    [] o.started = "FileNotFoundError" ->
         Uncaught("run_agent", "not_startable", "FileNotFoundError",
                  <<Msg("ERROR: Failed to start agent process."), Msg("Command")>>)
    [] o.started = "PermissionError" ->
         Uncaught("run_agent", "not_startable", "PermissionError", <<>>)

\* lines 423-434
dispatch_stdin ==
  /\ pc = "dispatch"
  /\ agent.mode = "stdin"
  /\ Spawn(cmd)
  /\ \E o \in SpawnOutcomes : cp' = o /\ AfterRun(o)
  /\ UNCHANGED <<resVars, inVars, cmd, tmp, tmpCreated, rmAttempts, rmErrors, output>>
  /\ UNCHANGED offMain

\* lines 435-447
dispatch_arg ==
  /\ pc = "dispatch"
  /\ agent.mode = "arg"
  /\ cmd' = SubstCmd(cmd, "{prompt}", prompt)
  /\ Spawn(cmd')
  /\ \E o \in SpawnOutcomes : cp' = o /\ AfterRun(o)
  /\ UNCHANGED <<resVars, inVars, tmp, tmpCreated, rmAttempts, rmErrors, output>>
  /\ UNCHANGED offMain

\* lines 448-451: the temporary file is created and the prompt written to it
dispatch_file ==
  /\ pc = "dispatch"
  /\ agent.mode = "file"
  /\ tmp' = "exists"
  /\ tmpCreated' = tmpCreated + 1
  /\ pc' = "file_run"
  /\ UNCHANGED <<log, exitCode, failure, stderrLog, resVars, inVars, cmd, spawns,
                 rmAttempts, rmErrors, cp, output>>
  /\ UNCHANGED offMain

\* lines 452-464
file_run ==
  /\ pc = "file_run"
  /\ cmd' = SubstCmd(cmd, "{prompt_file}", TmpPath)
  /\ Spawn(cmd')
  /\ \E o \in SpawnOutcomes : cp' = o
  /\ pc' = "file_cleanup"
  /\ UNCHANGED <<log, exitCode, failure, stderrLog, resVars, inVars, tmp, tmpCreated,
                 rmAttempts, rmErrors, output>>
  /\ UNCHANGED offMain

RemoveNothing(removed) == "exists"

\* os.remove(tmp_path): the file is gone, or OSError is raised and the file stays
Remove(removed) == IF removed THEN "removed" ELSE "exists"

\* lines 465-469: the finally clause, then the outcome of the run takes effect
file_cleanup ==
  /\ pc = "file_cleanup"
  /\ rmAttempts' = rmAttempts + 1
  /\ \E removed \in BOOLEAN :
       /\ tmp' = Remove(removed)
       /\ rmErrors' = IF removed THEN rmErrors ELSE rmErrors + 1
  /\ AfterRun(cp)
  /\ UNCHANGED <<resVars, inVars, cmd, spawns, tmpCreated, cp, output>>
  /\ UNCHANGED offMain

\* lines 470-472
dispatch_unknown ==
  /\ pc = "dispatch"
  /\ agent.mode \notin {"stdin", "arg", "file"}
  /\ SystemExit2("run_agent", "unknown_mode", <<Msg("ERROR: Unknown agent mode")>>)
  /\ UNCHANGED <<resVars, inVars, raVars>>
  /\ UNCHANGED offMain

\* what is printed for a failed agent: the captured standard error follows
\* the error line when it has a character that is not white space
FailureReport(err) ==
  <<Msg("ERROR: Agent CLI returned non-zero exit code.")>>
    \o (IF Strip(err) # <<>> THEN <<[tag |-> "cp.stderr", body |-> err]>> ELSE <<>>)

AgentExitOne(rc) == IF rc # 0 THEN 1 ELSE 0

\* the code raised by SystemExit(cp.returncode)
AgentExit(rc) == rc

\* lines 478-484
check_rc ==
  /\ pc = "check_rc"
  /\ IF cp.returncode # 0
       THEN /\ Abort("run_agent", "agent_failed", AgentExit(cp.returncode),
                     FailureReport(cp.stderr))
            /\ UNCHANGED output
       ELSE /\ output' = <<cp.stdout>>
            /\ Pass("run_agent", "write_output")
            /\ UNCHANGED stderrLog
  /\ UNCHANGED <<resVars, inVars, cmd, spawns, tmp, tmpCreated, rmAttempts, rmErrors, cp>>
  /\ UNCHANGED offMain

-----------------------------------------------------------------------------
(* main(), lines 649-658 *)

\* lines 649-655, with args.out set
write_output ==
  /\ pc = "write_output"
  /\ \/ /\ outFile' = output
        /\ stderrLog' = Append(stderrLog, Msg("Wrote review output to"))
        /\ Pass("write_output", "print_output")
     \/ /\ Uncaught("write_output", "write_failed", "OSError", <<>>)
        /\ UNCHANGED outFile
  /\ UNCHANGED <<stdoutText, inVars, raVars>>
  /\ UNCHANGED offMain

\* args.out is empty
skip_output ==
  /\ pc = "write_output"
  /\ pc' = "print_output"
  /\ UNCHANGED <<log, exitCode, failure, stderrLog, resVars, inVars, raVars>>
  /\ UNCHANGED offMain

\* print(output)
print_output ==
  /\ pc = "print_output"
  /\ stdoutText' = <<output[1] \o <<"\n">> >>
  /\ Pass("print_output", "return")
  /\ UNCHANGED <<stderrLog, outFile, inVars, raVars>>
  /\ UNCHANGED offMain

\* return 0
return_0 ==
  /\ pc = "return"
  /\ pc' = "exited"
  /\ exitCode' = <<0>>
  /\ log' = Append(log, Ok("exit"))
  /\ UNCHANGED <<failure, stderrLog, resVars, inVars, raVars>>
  /\ UNCHANGED offMain

-----------------------------------------------------------------------------
(* The run of main() *)

NoGathered == [docs |-> <<>>, template |-> <<>>]

InitRun(at, done) ==
  /\ pc = at
  /\ log = done
  /\ exitCode = <<>>
  /\ failure = "none"
  /\ stderrLog = <<>>
  /\ stdoutText = <<>>
  /\ outFile = <<>>
  /\ degraded = {}
  /\ gathered = NoGathered
  /\ cmd = <<>>
  /\ spawns = <<>>
  /\ tmp = "absent"
  /\ tmpCreated = 0
  /\ rmAttempts = 0
  /\ rmErrors = 0
  /\ cp = NoCp
  /\ output = <<>>

NoFiles == [p \in ConfigPaths |-> "absent"]
SearchArgs(repo) == [config_path |-> <<>>, no_config |-> FALSE, repo |-> repo]

\* load_config has not been called
IdleLoad ==
  /\ files = NoFiles
  /\ lcArgs = SearchArgs("none")
  /\ lcPos = 0
  /\ reads = <<>>
  /\ config = <<>>

\* load_config found no config file
LoadedNothing ==
  /\ files = NoFiles
  /\ lcArgs = SearchArgs("root")
  /\ lcPos = Len(DefaultConfigPaths("root"))
  /\ reads = <<>>
  /\ config = <<EmptyMapping>>

IdleMain ==
  /\ InitRun("idle", <<>>)
  /\ IdleLoad
  /\ prompt = <<>>
  /\ agent = NoAgent

\* the config of the whole run: the search with anything in the first
\* candidate, --no-config beside a config file, --config with and without
\* its file
MainConfigs ==
  {[args |-> SearchArgs("root"), files |-> [NoFiles EXCEPT ![CwdPaths[1]] = k]] :
     k \in FileKinds}
  \cup {[args |-> [SearchArgs("root") EXCEPT !.no_config = TRUE],
          files |-> [NoFiles EXCEPT ![CwdPaths[1]] = "object"]]}
  \cup {[args |-> [SearchArgs("root") EXCEPT !.config_path = <<GivenPath>>],
          files |-> [NoFiles EXCEPT ![GivenPath] = k]] : k \in {"absent", "object"}}

Init ==
  /\ InitRun("load_config", <<>>)
  /\ \E c \in MainConfigs : files = c.files /\ lcArgs = c.args
  /\ lcPos = 0
  /\ reads = <<>>
  /\ config = <<>>
  /\ prompt = <<>>
  /\ agent = NoAgent
  /\ IdleCfg /\ IdleParse /\ IdleSnip

RunAgent ==
  \/ run_agent_resolve
  \/ dispatch_stdin
  \/ dispatch_arg
  \/ dispatch_file
  \/ file_run
  \/ file_cleanup
  \/ dispatch_unknown
  \/ check_rc

Deliver ==
  \/ write_output
  \/ skip_output
  \/ print_output
  \/ return_0

Next ==
  \/ load_config
  \/ parse_args
  \/ ensure_repo_root
  \/ fetch_base
  \/ checkout_branch
  \/ compute_diff
  \/ truncate_diff
  \/ list_changed_files
  \/ parse_hunks_step
  \/ build_snippets_step
  \/ read_docs
  \/ read_template
  \/ build_prompt_step
  \/ load_agent_spec_step
  \/ RunAgent
  \/ Deliver

Spec == Init /\ [][Next]_vars

(* run_agent alone, from every agent spec within the bounds *)

StepOrder ==
  <<"load_config", "parse_args",
    "ensure_repo_root", "fetch_base", "checkout_branch", "compute_diff",
    "truncate_diff", "list_changed_files", "parse_changed_hunks",
    "build_context_snippets", "read_docs", "read_template", "build_prompt",
    "load_agent_spec", "run_agent", "write_output", "print_output", "exit">>

StepOrderNoFile == SelectSeq(StepOrder, LAMBDA n : n # "write_output")

BeforeAgent == [i \in 1..14 |-> Ok(StepOrder[i])]

InitAgent ==
  /\ InitRun("run_agent", BeforeAgent)
  /\ LoadedNothing
  /\ prompt = build_prompt(<<"doc1">>, <<>>)
  /\ agent \in [cmd : UserCmds, mode : Modes] \cup {Presets[n] : n \in DOMAIN Presets}
  /\ IdleCfg /\ IdleParse /\ IdleSnip

NextAgent == RunAgent \/ Deliver

SpecAgent == InitAgent /\ [][NextAgent]_vars

(* load_config alone, on every state of the config paths *)

LoadArgs == [config_path : {<<>>, <<GivenPath>>}, no_config : BOOLEAN, repo : Repos]

\* the repository root has files of its own only when it is another
\* directory than the current one
InitLoad ==
  /\ InitRun("load_config", <<>>)
  /\ lcArgs \in LoadArgs
  /\ files \in [ConfigPaths -> FileKinds]
  /\ lcArgs.repo # "root" => \A i \in 1..Len(RootPaths) : files[RootPaths[i]] = "absent"
  /\ lcArgs.config_path = <<>> => files[GivenPath] = "absent"
  /\ lcPos = 0
  /\ reads = <<>>
  /\ config = <<>>
  /\ prompt = <<>>
  /\ agent = NoAgent
  /\ IdleCfg /\ IdleParse /\ IdleSnip

SpecLoad == InitLoad /\ [][load_config]_vars

-----------------------------------------------------------------------------
(* Values of settings: text, integers, booleans, JSON objects and lists *)

S(chars) == [t |-> "str", s |-> chars, n |-> 0, items |-> <<>>]
I(num) == [t |-> "int", s |-> <<>>, n |-> num, items |-> <<>>]
B(bool) == [t |-> "bool", s |-> <<>>, n |-> IF bool THEN 1 ELSE 0, items |-> <<>>]
D(chars) == [t |-> "dict", s |-> chars, n |-> 0, items |-> <<>>]
L(items) == [t |-> "list", s |-> <<>>, n |-> 0, items |-> items]
Raised(exc) == [t |-> exc, s |-> <<>>, n |-> 0, items |-> <<>>]

IsRaised(v) == v.t \in {"ValueError", "TypeError"}

Digits == <<"0", "1", "2", "3", "4", "5", "6", "7", "8", "9">>
IsDigit(c) == \E d \in 1..Len(Digits) : Digits[d] = c
DigitValue(c) == (CHOOSE d \in 1..Len(Digits) : Digits[d] = c) - 1

\* the number written by a string of decimal digits
RECURSIVE DecimalValue(_)
DecimalValue(chars) ==
  IF chars = <<>> THEN 0
  ELSE 10 * DecimalValue(SubSeq(chars, 1, Len(chars) - 1)) + DigitValue(chars[Len(chars)])

\* int(v)
PyInt(v) ==
  CASE v.t = "int" -> v
    [] v.t = "bool" -> I(v.n)
    [] v.t = "str" ->
         IF v.s # <<>> /\ \A i \in 1..Len(v.s) : IsDigit(v.s[i])
           THEN I(DecimalValue(v.s)) ELSE Raised("ValueError")
    [] OTHER -> Raised("TypeError")

\* isinstance(v, int): a bool is an int
IsInstanceInt(v) == v.t \in {"int", "bool"}

LowerChar(c) ==
  CASE c = "T" -> "t" [] c = "R" -> "r" [] c = "U" -> "u" [] c = "E" -> "e"
    [] c = "Y" -> "y" [] c = "S" -> "s" [] OTHER -> c
Lower(chars) == [i \in 1..Len(chars) |-> LowerChar(chars[i])]

\* json.dumps of an object
Dumps(v) == S(<<"{">> \o v.s \o <<"}">>)

-----------------------------------------------------------------------------
(* main(): the settings and their layers, lines 500-605 *)

\* the reverse order: the config file is asked before the environment
DefaultConfigFirst(envVar, fallback, env, cfg) ==
  IF cfg # <<>> THEN cfg[1]
  ELSE IF envVar /\ env # <<>>
    THEN (IF fallback.t = "int" THEN PyInt(S(env[1])) ELSE S(env[1]))
  ELSE fallback

\* _default(key, env_var, fallback), lines 500-510.  envVar: an environment
\* variable is declared for the setting; env: <<>> or <<its text>>; cfg: <<>>
\* or <<cfg[key]>>.
Default(envVar, fallback, env, cfg) ==
  IF envVar /\ env # <<>>
    THEN IF fallback.t = "bool"
           THEN B(Lower(env[1]) \in {<<"1">>, <<"t", "r", "u", "e">>, <<"y", "e", "s">>})
         ELSE IF fallback.t = "int"
           THEN PyInt(S(env[1]))
         ELSE S(env[1])
  ELSE IF cfg # <<>> THEN cfg[1]
  ELSE fallback

\* _default_int(key, env_var, fallback), lines 512-514
DefaultInt(envVar, fallback, env, cfg) ==
  LET v == Default(envVar, fallback, env, cfg) IN
    IF IsRaised(v) \/ IsInstanceInt(v) THEN v ELSE PyInt(v)

\* the add_argument calls of lines 521-598
Settings ==
  { [key |-> "base-ref", envVar |-> TRUE, kind |-> "str",
     fallback |-> S(<<"o", "r", "i", "g", "i", "n", "/", "m", "a", "i", "n">>)],
    [key |-> "head-ref", envVar |-> FALSE, kind |-> "str",
     fallback |-> S(<<"H", "E", "A", "D">>)],
    [key |-> "obey-doc", envVar |-> FALSE, kind |-> "list", fallback |-> L(<<>>)],
    [key |-> "template", envVar |-> TRUE, kind |-> "str", fallback |-> S(<<>>)],
    [key |-> "agent", envVar |-> TRUE, kind |-> "str",
     fallback |-> S(<<"c", "o", "d", "e", "x">>)],
    [key |-> "agent-config", envVar |-> TRUE, kind |-> "str", fallback |-> S(<<>>)],
    [key |-> "context-lines", envVar |-> TRUE, kind |-> "int", fallback |-> I(20)],
    [key |-> "include-full-files", envVar |-> FALSE, kind |-> "flag",
     fallback |-> B(FALSE)],
    [key |-> "max-diff-bytes", envVar |-> TRUE, kind |-> "int", fallback |-> I(600000)],
    [key |-> "max-doc-bytes", envVar |-> TRUE, kind |-> "int", fallback |-> I(200000)],
    [key |-> "max-file-bytes", envVar |-> TRUE, kind |-> "int", fallback |-> I(200000)],
    [key |-> "snippet-max-chars", envVar |-> TRUE, kind |-> "int",
     fallback |-> I(25000)],
    [key |-> "out", envVar |-> TRUE, kind |-> "str", fallback |-> S(<<>>)] }

\* what the command line, the environment and the config file may hold
CliTexts(kind) ==
  CASE kind = "int" -> {<<"7">>, <<"4", "0">>}
    [] kind = "str" -> {<<"x">>, <<"y">>}
    [] OTHER -> {<<>>}
EnvTexts(kind) ==
  CASE kind = "int" -> {<<"7">>, <<"1", "5">>, <<"z">>}
    [] OTHER -> {<<>>, <<"x">>, <<"e">>}
CfgValues(s) ==
  CASE s.kind = "int" -> {I(7), I(3), S(<<"9">>), S(<<"z">>)}
    [] s.kind = "flag" -> {B(TRUE), B(FALSE)}
    [] s.kind = "list" -> {S(<<"f">>), L(<<>>), L(<<S(<<"f">>), S(<<"g">>)>>)}
    [] s.key = "agent-config" -> {S(<<"y">>), D(<<"c", "m", "d">>)}
    [] OTHER -> {S(<<"y">>), S(<<"f">>)}
CliLists == {<<>>, <<S(<<"x">>)>>, <<S(<<"g">>), S(<<"x">>)>>}

Optional(set) == {<<>>} \cup {<<v>> : v \in set}

\* the default handed to add_argument
ArgDefault(s, env, cfg) ==
  CASE s.kind = "int" -> DefaultInt(s.envVar, s.fallback, env, cfg)
    [] s.key = "agent-config" ->
         LET v == Default(s.envVar, s.fallback, env, cfg) IN
           IF v.t = "dict" THEN Dumps(v) ELSE v
    [] OTHER -> Default(s.envVar, s.fallback, env, cfg)

\* a scalar option: lines 521-528, 539-566, 573-598, and parse_args
resolve_scalar ==
  /\ effective = <<>>
  /\ setting.s.kind \in {"str", "int"}
  /\ LET s == setting.s
         dflt == ArgDefault(s, setting.env, setting.cfg)
     IN effective' =
          IF IsRaised(dflt) THEN <<dflt>>
          ELSE IF setting.cli # <<>>
            THEN (IF s.kind = "int" THEN <<PyInt(S(setting.cli[1]))>>
                  ELSE <<S(setting.cli[1])>>)
          ELSE <<dflt>>
  /\ UNCHANGED <<setting, offCfg>>

\* --include-full-files, lines 567-571: store_true
resolve_flag ==
  /\ effective = <<>>
  /\ setting.s.kind = "flag"
  /\ LET dflt == Default(setting.s.envVar, setting.s.fallback, setting.env, setting.cfg)
     IN effective' = IF setting.cli # <<>> THEN <<B(TRUE)>> ELSE <<dflt>>
  /\ UNCHANGED <<setting, offCfg>>

\* cfg.get("obey-doc", []), a string standing for a list of one
ObeyDocFromCfg(cfg) ==
  LET v == IF cfg # <<>> THEN cfg[1] ELSE L(<<>>) IN
    IF v.t = "str" THEN <<v>> ELSE v.items

\* --obey-doc, lines 530-538 and 602-605: action="append"
resolve_list ==
  /\ effective = <<>>
  /\ setting.s.kind = "list"
  /\ effective' = <<L(ObeyDocFromCfg(setting.cfg) \o setting.cliList)>>
  /\ UNCHANGED <<setting, offCfg>>

InitCfg ==
  /\ IdleMain /\ IdleParse /\ IdleSnip
  /\ effective = <<>>
  /\ \E s \in Settings :
       \E cli \in (IF s.kind = "list" THEN {<<>>} ELSE Optional(CliTexts(s.kind))),
          cliList \in (IF s.kind = "list" THEN CliLists ELSE {<<>>}),
          env \in Optional(EnvTexts(s.kind)),
          cfg \in Optional(CfgValues(s)) :
         setting = [s |-> s, cli |-> cli, cliList |-> cliList, env |-> env, cfg |-> cfg]

NextCfg ==
  \/ resolve_scalar
  \/ resolve_flag
  \/ resolve_list

SpecCfg == InitCfg /\ [][NextCfg]_vars

-----------------------------------------------------------------------------
(* parse_changed_hunks, lines 162-191 *)

\* A line of the diff, as the loop sees it: kind "diffgit" starts with
\* "diff --git ", kind "plus" starts with "+++ b/" and path is the rest of the
\* line, and any other line is kind "text".  match says whether HUNK_RE finds
\* a hunk header in the line, and g1..g4 are the header's groups: a string of
\* digits, or <<>> for a group that did not take part (None).
Line(kind, path, match, g1, g2, g3, g4) ==
  [kind |-> kind, path |-> path, match |-> match,
   g1 |-> g1, g2 |-> g2, g3 |-> g3, g4 |-> g4]

DiffGitLine == Line("diffgit", <<>>, FALSE, <<>>, <<>>, <<>>, <<>>)
FileLine(path) == Line("plus", path, FALSE, <<>>, <<>>, <<>>, <<>>)
HunkLine(g1, g2, g3, g4) == Line("text", <<>>, TRUE, g1, g2, g3, g4)
OtherLine == Line("text", <<>>, FALSE, <<>>, <<>>, <<>>, <<>>)

\* a count of 0 is taken for a missing count
GroupOrZeroMissing(g, dflt) == IF g = <<>> \/ DecimalValue(g) = 0 THEN dflt ELSE g

\* m.group(k) or "1"
GroupOr(g, dflt) == IF g = <<>> THEN dflt ELSE g

\* int() of a string of digits
IntOfDigits(g) == DecimalValue(g)

\* lines 178-189
ChangedHunk(file, m) ==
  [file_path |-> file,
   start_new |-> IntOfDigits(m.g3),
   count_new |-> IntOfDigits(GroupOr(m.g4, <<"1">>)),
   start_old |-> IntOfDigits(m.g1),
   count_old |-> IntOfDigits(GroupOr(m.g2, <<"1">>))]

\* the diff --git line is forgotten: the file of the hunks before it stays
AfterDiffGitKept(file) == file

\* current_file = None
AfterDiffGit(file) == <<>>

\* `current_file` as a condition: neither None nor the empty string
Truthy(file) == file # <<>> /\ file[1] # <<>>

Scanning == pos < Len(diff)

\* lines 170-172
scan_diff_git ==
  /\ Scanning
  /\ diff[pos + 1].kind = "diffgit"
  /\ current_file' = AfterDiffGit(current_file)
  /\ pos' = pos + 1
  /\ UNCHANGED <<diff, hunks, offParse>>

\* lines 173-175
scan_file_line ==
  /\ Scanning
  /\ diff[pos + 1].kind = "plus"
  /\ current_file' = <<Strip(diff[pos + 1].path)>>
  /\ pos' = pos + 1
  /\ UNCHANGED <<diff, hunks, offParse>>

\* lines 176-190, a hunk header while a file is set
scan_hunk ==
  /\ Scanning
  /\ diff[pos + 1].kind \notin {"diffgit", "plus"}
  /\ diff[pos + 1].match /\ Truthy(current_file)
  /\ hunks' = Append(hunks, ChangedHunk(current_file[1], diff[pos + 1]))
  /\ pos' = pos + 1
  /\ UNCHANGED <<diff, current_file, offParse>>

\* lines 176-177, any other line
scan_other ==
  /\ Scanning
  /\ diff[pos + 1].kind \notin {"diffgit", "plus"}
  /\ ~(diff[pos + 1].match /\ Truthy(current_file))
  /\ pos' = pos + 1
  /\ UNCHANGED <<diff, current_file, hunks, offParse>>

NextParse ==
  \/ scan_diff_git
  \/ scan_file_line
  \/ scan_hunk
  \/ scan_other

\* the diffs of the structure check: a few lines of every kind
Paths == { <<"a">>, <<" ", "b", " ">>, <<>> }
SomeHeaders ==
  { HunkLine(<<"1", "0">>, <<"3">>, <<"1", "2">>, <<"5">>),
    HunkLine(<<"1">>, <<>>, <<"1">>, <<>>) }
SomeLines ==
  {DiffGitLine, OtherLine} \cup {FileLine(p) : p \in Paths} \cup SomeHeaders

InitParse ==
  /\ IdleMain /\ IdleCfg /\ IdleSnip
  /\ diff \in UNION {[1..n -> SomeLines] : n \in 0..MaxLines}
  /\ pos = 0
  /\ current_file = <<>>
  /\ hunks = <<>>

SpecParse == InitParse /\ [][NextParse]_vars

\* the diffs of the header check: one file with one hunk header, the
\* header's numbers ranging over the strings of at most MaxDigits digits
DigitStrings == UNION {[1..n -> {"0", "3"}] : n \in 1..MaxDigits}
AllHeaders ==
  {HunkLine(g1, g2, g3, g4) :
     g1 \in DigitStrings, g2 \in DigitStrings \cup {<<>>},
     g3 \in DigitStrings, g4 \in DigitStrings \cup {<<>>}}
  \cup SomeHeaders

InitHeaders ==
  /\ IdleMain /\ IdleCfg /\ IdleSnip
  /\ \E h \in AllHeaders :
       diff \in { <<FileLine(<<"a">>), h>>,
                  <<DiffGitLine, FileLine(<<"a">>), OtherLine, h>>,
                  <<h, FileLine(<<"a">>), h>> }
  /\ pos = 0
  /\ current_file = <<>>
  /\ hunks = <<>>

SpecHeaders == InitHeaders /\ [][NextParse]_vars

-----------------------------------------------------------------------------
(* build_context_snippets for the hunks of one file, lines 217-243 *)

Max(a, b) == IF a >= b THEN a ELSE b
Min(a, b) == IF a <= b THEN a ELSE b

\* the decimal digits of a natural number
RECURSIVE ToDigits(_)
ToDigits(num) ==
  IF num < 10 THEN <<Digits[num + 1]>>
  ELSE ToDigits(num \div 10) \o <<Digits[(num % 10) + 1]>>

\* f"{i:6d}": right-aligned in a width of six
Format6d(num) ==
  LET d == ToDigits(num) IN
    [k \in 1..Max(0, 6 - Len(d)) |-> " "] \o d

\* sep.join(texts)
RECURSIVE Join(_, _)
Join(texts, sep) ==
  IF texts = <<>> THEN <<>>
  ELSE IF Len(texts) = 1 THEN texts[1]
  ELSE texts[1] \o sep \o Join(Tail(texts), sep)

HeaderPrefix ==
  <<"-", "-", "-", " ", "C", "o", "n", "t", "e", "x", "t", " ", "a",
    "r", "o", "u", "n", "d", " ", "h", "u", "n", "k", " ", "(", "+">>
HeaderIn ==
  <<")", " ", "i", "n", " ">>
HeaderSuffix ==
  <<" ", "-", "-", "-", "\n">>
TruncationMarker ==
  <<"\n", ".", ".", ".", " ", "(", "s", "n", "i", "p", "p", "e", "t",
    " ", "t", "r", "u", "n", "c", "a", "t", "e", "d", ")", " ", ".",
    ".", ".">>

RelPath == <<"a", ".", "p", "y">>

\* line 227
WindowStart(h, context_lines) == Max(1, h.start_new - context_lines)

\* the window is not cut at the end of the file
WindowEndUnclipped(h, context_lines, last) ==
  h.start_new + Max(h.count_new, 1) + context_lines - 1

\* line 228
WindowEnd(h, context_lines, last) ==
  Min(last, h.start_new + Max(h.count_new, 1) + context_lines - 1)

\* line 232
IsChangedRange(h, i) ==
  h.start_new <= i /\ i < h.start_new + Max(h.count_new, 1)

\* lines[i-1]: an index of -1 is the last line, an index past the end raises
LineAt(lines, i) ==
  IF i \in 1..Len(lines) THEN lines[i]
  ELSE IF i = 0 /\ lines # <<>> THEN lines[Len(lines)]
  ELSE <<"IndexError">>

\* lines 233-234
FormatLine(h, i, lines) ==
  (IF IsChangedRange(h, i) THEN <<">", ">">> ELSE <<" ", " ">>)
    \o <<" ">> \o Format6d(i) \o <<" ", "|", " ">> \o LineAt(lines, i)

\* lines 230-234: the numbered lines of the window, each with its mark
Block(h, context_lines, lines) ==
  LET start == WindowStart(h, context_lines)
      end == WindowEnd(h, context_lines, Len(lines))
  IN [k \in 1..Max(0, end + 1 - start) |->
        [i |-> start + k - 1,
         changed |-> IsChangedRange(h, start + k - 1),
         text |-> FormatLine(h, start + k - 1, lines)]]

\* lines 235-238
Part(h, context_lines, lines) ==
  LET block == Block(h, context_lines, lines) IN
    HeaderPrefix \o ToDigits(h.start_new) \o <<",">> \o ToDigits(h.count_new)
      \o HeaderIn \o RelPath \o HeaderSuffix
      \o Join([k \in 1..Len(block) |-> block[k].text], <<"\n">>)

\* lines 240-242
Combined(fhunks, context_lines, lines) ==
  Strip(Join([k \in 1..Len(fhunks) |-> Part(fhunks[k], context_lines, lines)],
             <<"\n", "\n">>))

Truncated(combined, cap) ==
  IF Len(combined) > cap THEN Take(combined, cap) \o TruncationMarker ELSE combined

\* the body of the loop over the files, for one file that exists
build_context_snippets ==
  /\ snipOut = <<>>
  /\ snipIn # NoSnippet
  /\ LET blocks == [k \in 1..Len(snipIn.hunks) |->
                      Block(snipIn.hunks[k], snipIn.context_lines, snipIn.lines)]
         combined == Combined(snipIn.hunks, snipIn.context_lines, snipIn.lines)
     IN snipOut' =
          <<[blocks |-> blocks,
             reads |-> UNION {{blocks[k][j].i : j \in 1..Len(blocks[k])} :
                                k \in 1..Len(blocks)},
             cut |-> Len(combined) > snipIn.cap,
             text |-> Truncated(combined, snipIn.cap)]>>
  /\ UNCHANGED <<snipIn, offSnip>>

NextSnip == build_context_snippets

\* the inputs: files of at most MaxFileLines lines, one or two hunks starting
\* at line 0..MaxStart, and the example of the specification
FileLines == {<<"x">>, <<>>}
Files == UNION {[1..n -> FileLines] : n \in 0..MaxFileLines}
Hunk(start, count) ==
  [file_path |-> RelPath, start_new |-> start, count_new |-> count,
   start_old |-> start, count_old |-> count]
SnipHunks == {Hunk(a, c) : a \in 0..MaxStart, c \in 0..2}
ExampleSnippet ==
  [lines |-> [i \in 1..20 |-> <<"x">>], hunks |-> <<Hunk(12, 5)>>,
   context_lines |-> 2, cap |-> 25000]

InitSnip ==
  /\ IdleMain /\ IdleCfg /\ IdleParse
  /\ snipOut = <<>>
  /\ \/ snipIn = ExampleSnippet
     \/ \E f \in Files, h \in SnipHunks, more \in {<<>>, <<Hunk(1, 1)>>},
           c \in 0..MaxContext, cap \in {0, 12, 60, 25000} :
          snipIn = [lines |-> f, hunks |-> <<h>> \o more, context_lines |-> c,
                    cap |-> cap]

SpecSnip == InitSnip /\ [][NextSnip]_vars

-----------------------------------------------------------------------------
(* Properties *)

Range(s) == {s[i] : i \in 1..Len(s)}
StepNames == [i \in 1..Len(log) |-> log[i].step]

\* run_agent has finished, by returning or by ending the process
RunAgentFinished == \E i \in 1..Len(log) : log[i].step = "run_agent"

\* the agent process has run and run_agent has looked at its exit code
AgentChecked == cp.started = "ok" /\ RunAgentFinished

\* the text of the agent's standard error relayed to the user
RelayedStderr ==
  Flatten([i \in 1..Len(stderrLog) |->
             IF stderrLog[i].tag = "cp.stderr" THEN stderrLog[i].body ELSE <<>>])

\* C1 (as claimed): every listed fatal condition ends the run with exit code 2
\* and a message on standard error.
ListedFatal ==
  {"not_repo", "branch", "diff", "changed_files", "empty_cmd", "spec_no_cmd",
   "spec_unparsable", "unknown_mode", "exe_not_found", "not_startable",
   "unknown_agent"}

C1_FatalExitsWith2 ==
  failure \in ListedFatal => exitCode = <<2>> /\ stderrLog # <<>>

\* C2 (as claimed): after a non-zero exit code c the captured standard error
\* is relayed and the tool exits with c, after one run of the agent, and its
\* standard output is neither returned, printed nor written; after exit code 0
\* run_agent returns the captured standard output.
C2_RelaysStderrAlways ==
  AgentChecked =>
    IF cp.returncode # 0
      THEN /\ pc = "exited" /\ exitCode = <<cp.returncode>>
           /\ Len(spawns) = 1
           /\ output = <<>> /\ stdoutText = <<>> /\ outFile = <<>>
           /\ RelayedStderr = cp.stderr
      ELSE output = <<cp.stdout>>

\* C2 (amended): as C2, but the captured standard error is relayed only when
\* it has a character that is not white space.
C2_AgentExitRelayed ==
  AgentChecked =>
    IF cp.returncode # 0
      THEN /\ pc = "exited" /\ exitCode = <<cp.returncode>>
           /\ Len(spawns) = 1
           /\ output = <<>> /\ stdoutText = <<>> /\ outFile = <<>>
           /\ RelayedStderr =
                (IF \E i \in 1..Len(cp.stderr) : ~IsSpace(cp.stderr[i])
                   THEN cp.stderr ELSE <<>>)
      ELSE output = <<cp.stdout>>

C2_Witness ==
  /\ AgentChecked /\ cp.returncode = 3 /\ exitCode = <<3>>
  /\ RelayedStderr # <<>>

\* C3 (as claimed): no temporary file is created outside file mode, and in
\* file mode the temporary file does not exist once run_agent has finished.
C3_TmpFileGone ==
  /\ agent.mode # "file" => tmpCreated = 0 /\ tmp = "absent"
  /\ RunAgentFinished /\ agent.mode = "file" => tmp # "exists"

\* C3 (amended): no temporary file is created outside file mode; in file mode
\* at most one is created, and once run_agent has finished os.remove was called
\* on it exactly once on every path (exit 0, non-zero exit, failure to start),
\* so the file exists afterwards only if that call raised OSError.
C3_TmpFileRemovedUnlessRemoveFails ==
  /\ agent.mode # "file" => tmpCreated = 0 /\ tmp = "absent"
  /\ tmpCreated <= 1
  /\ RunAgentFinished /\ agent.mode = "file" =>
       /\ rmAttempts = tmpCreated
       /\ tmpCreated = Len(spawns)
       /\ tmp = "exists" <=> rmErrors = 1
       /\ tmp = "removed" <=> (tmpCreated = 1 /\ rmErrors = 0)

C3_Witness ==
  /\ RunAgentFinished /\ agent.mode = "file"
  /\ cp.started = "FileNotFoundError" /\ tmp = "removed"

\* the argument with every placeholder token tok replaced by the text val
RECURSIVE Substituted(_, _, _)
Substituted(arg, tok, val) ==
  IF arg = <<>> THEN <<>>
  ELSE (IF Head(arg) = tok THEN val ELSE <<Head(arg)>>)
         \o Substituted(Tail(arg), tok, val)

\* run_agent has reached its dispatch on the mode and left it
Dispatched ==
  /\ cmd # <<>>
  /\ pc \notin {"run_agent", "dispatch", "file_run"}

\* C9: once the dispatch has acted, a mode of stdin, arg or file has made
\* exactly one subprocess.run call, given the whole prompt as input; the
\* arguments of the agent's command reach it with every {prompt} replaced by
\* the prompt in arg mode, every {prompt_file} replaced by the temporary
\* file's path in file mode, and unchanged in stdin mode; any other mode has
\* made no call and ended the run with exit code 2, reporting the mode.
C9_DispatchByMode ==
  /\ Len(spawns) <= 1
  /\ Dispatched =>
       IF agent.mode \in {"stdin", "arg", "file"}
         THEN /\ Len(spawns) = 1
              /\ spawns[1].input = prompt
              /\ LET sent == spawns[1].cmd
                     k == Len(sent) - Len(agent.cmd)
                     Want(a) ==
                       CASE agent.mode = "stdin" -> a
                         [] agent.mode = "arg" -> Substituted(a, "{prompt}", prompt)
                         [] agent.mode = "file" -> Substituted(a, "{prompt_file}", TmpPath)
                 IN /\ k >= 0
                    /\ sent[k + 1] = Want(Resolved(agent.cmd[1]))
                    /\ \A i \in 2..Len(agent.cmd) : sent[k + i] = Want(agent.cmd[i])
         ELSE /\ spawns = <<>>
              /\ exitCode = <<2>>
              /\ failure = "unknown_mode"
              /\ stderrLog[Len(stderrLog)] = Msg("ERROR: Unknown agent mode")

C9_Witness ==
  /\ Dispatched /\ agent.mode = "arg" /\ Len(spawns) = 1
  /\ \E i \in 1..Len(agent.cmd) :
       /\ agent.cmd[i] = <<"{prompt}", "{prompt_file}", "{prompt}">>
       /\ spawns[1].cmd[i] = prompt \o <<"{prompt_file}">> \o prompt

\* C10: the steps finish in the stated order (the output file being
\* optional), a failed step is the last one and ends the run, the agent is
\* spawned only after checkout and diff succeeded, and the output is written
\* and printed only after the agent exited with code 0.
C10_StepsInOrder ==
  /\ \/ StepNames = SubSeq(StepOrder, 1, Len(log))
     \/ StepNames = SubSeq(StepOrderNoFile, 1, Len(log))
  /\ \A i \in 1..Len(log) : ~log[i].ok => i = Len(log) /\ pc = "exited"
  /\ failure # "none" => pc = "exited" /\ ~log[Len(log)].ok
  /\ spawns # <<>> =>
       Ok("checkout_branch") \in Range(log) /\ Ok("compute_diff") \in Range(log)
  /\ (outFile # <<>> \/ stdoutText # <<>>) =>
       /\ cp.started = "ok" /\ cp.returncode = 0
       /\ Ok("run_agent") \in Range(log)
  /\ stdoutText # <<>> /\ Ok("write_output") \in Range(log) => outFile # <<>>
  /\ exitCode = <<0>> => stdoutText # <<>> /\ Len(log) >= Len(StepOrderNoFile)

C10_Witness ==
  /\ exitCode = <<0>> /\ outFile # <<>> /\ stdoutText # <<>>
  /\ StepNames = StepOrder

\* the value a layer supplies, in the type of the setting: integer text is
\* the integer, a JSON object for agent-config is its JSON text, one
\* documentation path is a list of one
Meaning(s, v) ==
  CASE s.kind = "int" /\ v.t = "str" /\ v.s # <<>>
         /\ (\A i \in 1..Len(v.s) : IsDigit(v.s[i])) -> I(DecimalValue(v.s))
    [] s.key = "agent-config" /\ v.t = "dict" -> Dumps(v)
    [] s.kind = "list" /\ v.t = "str" -> L(<<v>>)
    [] OTHER -> v

CliGiven(x) == IF x.s.kind = "list" THEN x.cliList # <<>> ELSE x.cli # <<>>
EnvGiven(x) == x.s.envVar /\ x.env # <<>>
CfgGiven(x) == x.cfg # <<>>

\* CLI flag > environment variable > config file > built-in default
ByPrecedence(x) ==
  IF CliGiven(x)
    THEN (CASE x.s.kind = "flag" -> B(TRUE)
            [] x.s.kind = "list" -> L(x.cliList)
            [] OTHER -> Meaning(x.s, S(x.cli[1])))
  ELSE IF EnvGiven(x) THEN Meaning(x.s, S(x.env[1]))
  ELSE IF CfgGiven(x) THEN Meaning(x.s, x.cfg[1])
  ELSE x.s.fallback

\* the value of an integer setting that main() reads below the command line
\* (the environment's, else the config file's) is not an integer
IllFormedBelow(x) ==
  /\ x.s.kind = "int"
  /\ \/ EnvGiven(x) /\ Meaning(x.s, S(x.env[1])).t # "int"
     \/ ~EnvGiven(x) /\ CfgGiven(x) /\ Meaning(x.s, x.cfg[1]).t # "int"

Markers(d, i) == {j \in 1..(i - 1) : d[j].kind \in {"diffgit", "plus"}}

\* line i of d is a hunk header seen while a file is set: the nearest marker
\* before it is a +++ b/<path> line (with a path that is not blank)
HunkOfFile(d, i) ==
  /\ d[i].kind = "text" /\ d[i].match
  /\ Markers(d, i) # {}
  /\ LET j == CHOOSE j \in Markers(d, i) : \A k \in Markers(d, i) : k <= j
     IN d[j].kind = "plus" /\ \E c \in 1..Len(d[j].path) : ~IsSpace(d[j].path[c])

\* the path that line i is attributed to
PathOf(d, i) ==
  LET j == CHOOSE j \in Markers(d, i) : \A k \in Markers(d, i) : k <= j
  IN Strip(d[j].path)

\* the hunk headers among the first n lines of d that have a file set, in order
RECURSIVE HunkLines(_, _)
HunkLines(d, n) ==
  IF n = 0 THEN <<>>
  ELSE HunkLines(d, n - 1) \o (IF HunkOfFile(d, n) THEN <<n>> ELSE <<>>)

\* C6: after any number of lines, there is exactly one record per hunk header
\* seen so far while a file was set, in diff order, with the path of the most
\* recent +++ b/ line; a header before the first +++ b/ line, or after a diff
\* --git line with no +++ b/ line since, has no record.
C6_OneRecordPerHunkOfFile ==
  LET idx == HunkLines(diff, pos) IN
    /\ Len(hunks) = Len(idx)
    /\ \A k \in 1..Len(idx) : hunks[k].file_path = PathOf(diff, idx[k])
    /\ \A k \in 1..Len(idx) :
         /\ hunks[k].start_new = DecimalValue(diff[idx[k]].g3)
         /\ hunks[k].start_old = DecimalValue(diff[idx[k]].g1)

C6_Witness ==
  /\ pos = Len(diff) /\ pos = 4
  /\ diff[1].kind = "plus" /\ diff[2].match /\ diff[3].kind = "diffgit" /\ diff[4].match
  /\ Len(hunks) = 1

\* C7: every record has the numbers of its header: start_old, start_new, and
\* the counts as written (0 included), or 1 for a count that is left out; so no
\* count is negative.  The header @@ -10,3 +12,5 @@ gives 10, 3, 12, 5.
C7_HeaderNumbers ==
  LET idx == HunkLines(diff, pos)
      Count(g) == IF g = <<>> THEN 1 ELSE DecimalValue(g)
  IN /\ Len(hunks) = Len(idx)
     /\ \A k \in 1..Len(idx) :
          LET h == diff[idx[k]] IN
            /\ hunks[k].start_old = DecimalValue(h.g1)
            /\ hunks[k].count_old = Count(h.g2)
            /\ hunks[k].start_new = DecimalValue(h.g3)
            /\ hunks[k].count_new = Count(h.g4)
            /\ hunks[k].count_old >= 0 /\ hunks[k].count_new >= 0
            /\ h = HunkLine(<<"1", "0">>, <<"3">>, <<"1", "2">>, <<"5">>) =>
                 /\ hunks[k].start_old = 10 /\ hunks[k].count_old = 3
                 /\ hunks[k].start_new = 12 /\ hunks[k].count_new = 5
            /\ h = HunkLine(<<"1">>, <<>>, <<"1">>, <<>>) =>
                 hunks[k].count_old = 1 /\ hunks[k].count_new = 1

C7_Witness ==
  /\ pos = Len(diff) /\ Len(hunks) = 1
  /\ diff[Len(diff)].g2 = <<"0">> /\ diff[Len(diff)].g4 = <<>>
  /\ hunks[1].count_old = 0 /\ hunks[1].count_new = 1

EndsWith(text, suffix) ==
  /\ Len(text) >= Len(suffix)
  /\ SubSeq(text, Len(text) - Len(suffix) + 1, Len(text)) = suffix

\* C5 (as claimed): the snippet text of a file has at most per_file_max_chars
\* characters, and ends with the truncation marker whenever it was cut.
C5_SnippetWithinCap ==
  snipOut # <<>> =>
    /\ Len(snipOut[1].text) <= snipIn.cap
    /\ snipOut[1].cut => EndsWith(snipOut[1].text, TruncationMarker)

\* C8: the block of every hunk holds exactly the lines max(1, start_new -
\* context_lines) .. min(L, start_new + max(count_new, 1) + context_lines - 1)
\* of the file, in order (none when the range is empty), marks exactly the
\* lines start_new <= i < start_new + max(count_new, 1) as changed, and no
\* line outside 1..L is read.  start_new 12, count_new 5, context_lines 2 over
\* 20 lines gives the lines 10-18 with 12-16 marked.
C8_SnippetWindow ==
  snipOut # <<>> =>
    LET last == Len(snipIn.lines)
        c == snipIn.context_lines
    IN /\ snipOut[1].reads \subseteq 1..last
       /\ Len(snipOut[1].blocks) = Len(snipIn.hunks)
       /\ \A k \in 1..Len(snipIn.hunks) :
            LET h == snipIn.hunks[k]
                n == IF h.count_new >= 1 THEN h.count_new ELSE 1
                lo == IF h.start_new - c >= 1 THEN h.start_new - c ELSE 1
                hi == IF h.start_new + n + c - 1 <= last
                        THEN h.start_new + n + c - 1 ELSE last
                block == snipOut[1].blocks[k]
            IN /\ {block[j].i : j \in 1..Len(block)} = lo..hi
               /\ \A j \in 1..Len(block) :
                    /\ j > 1 => block[j].i = block[j - 1].i + 1
                    /\ block[j].changed <=>
                         (h.start_new <= block[j].i /\ block[j].i < h.start_new + n)
                    /\ block[j].changed <=> SubSeq(block[j].text, 1, 2) = <<">", ">">>
                    /\ EndsWith(block[j].text, snipIn.lines[block[j].i])
       /\ snipIn = ExampleSnippet =>
            /\ [j \in 1..Len(snipOut[1].blocks[1]) |-> snipOut[1].blocks[1][j].i]
                 = <<10, 11, 12, 13, 14, 15, 16, 17, 18>>
            /\ {j \in 1..9 : snipOut[1].blocks[1][j].changed} = {3, 4, 5, 6, 7}

C8_Witness ==
  /\ snipOut # <<>>
  /\ Len(snipIn.lines) = 3 /\ snipIn.context_lines = 1
  /\ snipIn.hunks[1].start_new = 3 /\ snipIn.hunks[1].count_new = 2
  /\ Len(snipOut[1].blocks[1]) = 2
  /\ ~snipOut[1].blocks[1][1].changed /\ snipOut[1].blocks[1][2].changed

-----------------------------------------------------------------------------
(* The recoverable conditions of a run *)

RecoverableConditions == {"config", "fetch", "doc", "template"}

WarningTags ==
  {"WARNING: Could not load config from",
   "WARNING: Doc not found, skipping",
   "WARNING: Template not found, skipping"}

\* the step met the condition for the first time
Arises(c) == c \notin degraded /\ c \in degraded'

\* the step printed a warning to standard error
WarningPrinted ==
  \E i \in (Len(stderrLog) + 1)..Len(stderrLog') : stderrLog'[i].tag \in WarningTags

\* the step that meets the condition prints a warning and does not end the run
WarnsAndContinues(c) == Arises(c) => WarningPrinted /\ pc' # "exited"

\* the documentation files reported as not found
SkippedDocs ==
  {stderrLog[i].body[1] :
     i \in {j \in 1..Len(stderrLog) : stderrLog[j].tag = "WARNING: Doc not found, skipping"}}

\* what the agent is given after a recoverable condition: the missing
\* documentation file omitted, no template, the empty config
DegradedInput ==
  /\ "config" \in degraded /\ config # <<>> => config = <<EmptyMapping>>
  /\ "doc" \in degraded => SkippedDocs # {} /\ SkippedDocs \cap Range(gathered.docs) = {}
  /\ "template" \in degraded => gathered.template = <<>>

\* a run that met no failure other than recoverable conditions exits with 0
ExitsZeroUnlessFailed ==
  pc = "exited" /\ failure \in {"none"} \cup RecoverableConditions => exitCode = <<0>>

\* C11: each recoverable condition (a missing documentation file, a missing
\* template, an unreadable or malformed config file, a failed fetch) is
\* logged as a warning by the step that meets it and does not end the run;
\* the run goes on with the degraded input, and a run with no other failure
\* exits with code 0.
C11_RecoverableWarnsAndContinues ==
  /\ [][\A c \in RecoverableConditions : WarnsAndContinues(c)]_vars
  /\ [](DegradedInput /\ ExitsZeroUnlessFailed)

-----------------------------------------------------------------------------
(* The search for a config file *)

\* the candidates in the order of the search: the current directory's
\* dotted and plain file, the repository root's when the root is another
\* directory, the user's config file
SearchOrder ==
  <<"cwd/.coderev.json", "cwd/coderev.json">>
    \o (IF lcArgs.repo = "root"
          THEN <<"root/.coderev.json", "root/coderev.json">> ELSE <<>>)
    \o <<"user/coderev/config.json">>

Found == {i \in 1..Len(SearchOrder) : files[SearchOrder[i]] # "absent"}
FirstFound == SearchOrder[CHOOSE i \in Found : \A j \in Found : i <= j]

LoadFinished == pc # "load_config"
Returned(d) == pc = "parse_args" /\ config = <<d>>
Warnings == {stderrLog[i] : i \in 1..Len(stderrLog)}

\* the candidate's text is the text of a JSON value
Parses(p) == files[p] \in {"object", "not_object"}

\* C12: with no explicit path and config enabled, load_config reads the
\* first candidate of the search order that exists and no other: its object
\* is the result, or the empty mapping when it is not an object or does not
\* parse, with a warning when it does not parse; the empty mapping is the
\* result when no candidate exists, and always when config is disabled.
C12_FirstFoundWins ==
  lcArgs.config_path = <<>> =>
    /\ lcArgs.no_config =>
         /\ reads = <<>>
         /\ LoadFinished => Returned(EmptyMapping)
    /\ ~lcArgs.no_config /\ Found = {} =>
         /\ reads = <<>>
         /\ LoadFinished => Returned(EmptyMapping)
    /\ ~lcArgs.no_config /\ Found # {} =>
         /\ reads \in {<<>>, <<FirstFound>>}
         /\ LoadFinished =>
              /\ reads = <<FirstFound>>
              /\ Returned(IF files[FirstFound] = "object"
                            THEN ObjectIn(FirstFound) ELSE EmptyMapping)
              /\ ~Parses(FirstFound) =>
                   \E w \in Warnings :
                     /\ w.tag = "WARNING: Could not load config from"
                     /\ w.body = <<FirstFound>>

=============================================================================
